---- MODULE Spec2Model ----
(***************************************************************************)
(* Model of the QRNG alphanumeric string generators:                       *)
(*   Random Number Generator/qrng_alphanumeric_pattern.py                  *)
(*     calculate_entropy, generate_quantum_alphanumeric_string             *)
(*   Random Number Generator/qrng_alphanumeric_alternate.py                *)
(*     generate_quantum_alphanumeric                                       *)
(* Python strings are sequences of one-character strings.  The entropy     *)
(* provider (Statevector.sample_counts(shots=1)) is an environment that    *)
(* hands out consecutive bits of a fixed cyclic bit sequence, starting at  *)
(* an offset chosen per run, and that may misbehave once per invocation.   *)
(***************************************************************************)
EXTENDS Integers, Naturals, Sequences, FiniteSets, TLC

\* ------------------------------------------------------------------ bounds
MaxLen == 2
MaxShots == 2
MaxBatch == 2
MaxStrLen == 2
FracBits == 6

\* ------------------------------------------------ program constants, tables
bits_per_digit == 4
bits_per_letter == 5
digit_qubits == 4
letter_qubits == 5

digits == <<"0", "1", "2", "3", "4", "5", "6", "7", "8", "9">>
letters == <<"a", "b", "c", "d", "e", "f", "g", "h", "i", "j", "k", "l", "m",
             "n", "o", "p", "q", "r", "s", "t", "u", "v", "w", "x", "y", "z">>

Range(f) == {f[i] : i \in DOMAIN f}
Min(a, b) == IF a < b THEN a ELSE b

\* str.upper() on the characters a pattern may hold
Upper(c) == CASE c = "d" -> "D" [] c = "l" -> "L" [] OTHER -> c

\* str.strip(): drop leading and trailing whitespace
RECURSIVE LStrip(_)
LStrip(s) == IF s # <<>> /\ Head(s) = " " THEN LStrip(Tail(s)) ELSE s
RECURSIVE RStrip(_)
RStrip(s) ==
  IF s # <<>> /\ s[Len(s)] = " " THEN RStrip(SubSeq(s, 1, Len(s) - 1)) ELSE s
Strip(s) == RStrip(LStrip(s))

\* int(bits, 2) on a non-empty string of '0'/'1', most significant bit first
RECURSIVE Int2(_)
Int2(bits) ==
  IF bits = <<>> THEN 0
  ELSE 2 * Int2(SubSeq(bits, 1, Len(bits) - 1))
       + (IF bits[Len(bits)] = "1" THEN 1 ELSE 0)

\* Python slice s[lo:hi] (0-based, clamped to the length of s)
Slice(s, lo, hi) ==
  IF lo >= Min(hi, Len(s)) THEN <<>> ELSE SubSeq(s, lo + 1, Min(hi, Len(s)))

\* char_type.upper() == 'D'
IsDigitNoUpper(char_type) == char_type = "D"
IsDigit(char_type) == Upper(char_type) = "D"

\* bits_per_digit if char_type.upper() == 'D' else bits_per_letter
NumQubits(char_type) ==
  IF IsDigit(char_type) THEN bits_per_digit ELSE bits_per_letter

\* sum(bits_per_digit if c.upper() == 'D' else bits_per_letter for c in pattern)
RECURSIVE TotalQubitsDigitsOnly(_)
TotalQubitsDigitsOnly(p) ==
  IF p = <<>> THEN 0 ELSE bits_per_digit + TotalQubitsDigitsOnly(Tail(p))
RECURSIVE TotalQubits(_)
TotalQubits(p) ==
  IF p = <<>> THEN 0 ELSE NumQubits(Head(p)) + TotalQubits(Tail(p))

\* num = int(bits, 2) % 10 (digit) or % 26 (letter)
SymbolIndexNoReduction(bits, isDigit) == Int2(bits)
SymbolIndex(bits, isDigit) ==
  IF isDigit THEN Int2(bits) % 10 ELSE Int2(bits) % 26

\* digits[num] or letters[num]; an index outside the alphabet is IndexError
SymbolSwapped(bits, isDigit) ==
  LET num == SymbolIndex(bits, isDigit)
      alphabet == IF isDigit THEN letters ELSE digits
  IN IF num + 1 \in DOMAIN alphabet THEN alphabet[num + 1] ELSE "IndexError"
Symbol(bits, isDigit) ==
  LET num == SymbolIndex(bits, isDigit)
      alphabet == IF isDigit THEN digits ELSE letters
  IN IF num + 1 \in DOMAIN alphabet THEN alphabet[num + 1] ELSE "IndexError"

\* ------------------------------------------------------ calculate_entropy
\* Reals are kept in fixed point: a value x stands for x / EntropyOne.
EntropyOne == 2 ^ FracBits
MantissaOne == 2 ^ 12

RECURSIVE Flatten(_)
Flatten(strings) ==
  IF strings = <<>> THEN <<>> ELSE Head(strings) \o Flatten(Tail(strings))

\* char_count[c] after the counting loop
CharCount(flat, c) == Cardinality({i \in DOMAIN flat : flat[i] = c})

RECURSIVE Log2Int(_, _)
Log2Int(a, b) == IF 2 * b <= a THEN 1 + Log2Int(a, 2 * b) ELSE 0
RECURSIVE Log2Frac(_, _)
Log2Frac(m, k) ==
  IF k = 0 THEN 0
  ELSE LET sq == (m * m) \div MantissaOne
       IN IF sq >= 2 * MantissaOne
          THEN 2 ^ (k - 1) + Log2Frac(sq \div 2, k - 1)
          ELSE Log2Frac(sq, k - 1)

\* log2(count / total) for 0 < count <= total, in fixed point (never positive)
Log2P(count, total) ==
  LET e == Log2Int(total, count)
      m == (total * MantissaOne) \div (count * 2 ^ e)
  IN -(e * EntropyOne + Log2Frac(m, FracBits))

\* p * log2(p) if p > 0 else 0, with p = count / total_chars
PLog2P(count, total) ==
  IF count > 0 THEN -((count * (-Log2P(count, total))) \div total) ELSE 0

\* entropy -= p * log2(p)
AccumulateAdd(entropy_, term) == entropy_ + term
Accumulate(entropy_, term) == entropy_ - term

RECURSIVE SumTerms(_, _, _)
SumTerms(chars, flat, acc) ==
  IF chars = {} THEN acc
  ELSE LET c == CHOOSE x \in chars : TRUE
       IN SumTerms(chars \ {c}, flat,
                   Accumulate(acc, PLog2P(CharCount(flat, c), Len(flat))))

calculate_entropy(strings) ==
  IF strings = <<>> THEN 0
  ELSE LET flat == Flatten(strings)
       IN SumTerms(Range(flat), flat, 0)

\* ------------------------------------------------------- entropy provider
\* A fixed cyclic bit sequence in which every 5-bit word occurs once.
Stream == <<"0","0","0","0","0","1","0","0","0","1","1","0","0","1","0","1",
            "0","0","1","1","1","0","1","0","1","1","0","1","1","1","1","1">>

\* a run may start at any offset of the cycle
Seeds == 0 .. (Len(Stream) - 1)
Faults == {"none", "short", "long", "empty", "error"}

\* the bits a draw of `width` returns when the provider behaves as `fault`
ReturnedWidth(width, fault) ==
  CASE fault = "short" -> IF width >= 2 THEN width - 2 ELSE 0
    [] fault = "long" -> width + 1
    [] fault = "empty" -> 0
    [] OTHER -> width
DrawBits(cur, n) ==
  [i \in 1 .. n |-> Stream[((cur + i - 1) % Len(Stream)) + 1]]

\* ------------------------------------------------------------------ state
VARIABLES
  api,          \* "pattern": generate_quantum_alphanumeric_string,
                \* "alternate": generate_quantum_alphanumeric
  pattern,      \* argument pattern (pattern form)
  length,       \* argument length (alternate form)
  shots,        \* argument shots, when it is an int
  shotsIsInt,   \* isinstance(shots, int)
  parallel,     \* argument parallel
  pc,           \* position in the function body
  results,      \* local list results
  alphanumeric, \* string under construction (result in the alternate form)
  shot,         \* 1-based index of the outer loop
  pos,          \* 1-based index of the inner loop
  samples,      \* local list samples of the parallel branch
  seed,         \* provider: offset of the first bit of this run
  cursor,       \* provider: offset of the next bit
  faulted,      \* provider: has misbehaved in this invocation
  callLog,      \* provider: the draws made so far, in order
  sliceLog,     \* the slices taken off each sample by the parallel branch
  outcome,      \* "none" | "ok" | "error"
  err,          \* message class of the caught exception
  ret,          \* returned strings value
  entropy,      \* returned entropy (pattern form)
  round,        \* 1 for the first invocation, 2 for the repeat in the other mode
  prev,         \* what the first invocation returned
  mclass,       \* mapping census: pattern marker under test
  mstart,       \* mapping census: first value fed
  mcount,       \* mapping census: number of values fed so far
  hist          \* mapping census: occurrences of each symbol

synthVars == <<api, pattern, length, shots, shotsIsInt, parallel, pc, results,
               alphanumeric, shot, pos, samples, seed, cursor, faulted,
               callLog, sliceLog, outcome, err, ret, entropy, round, prev>>
censusVars == <<mclass, mstart, mcount, hist>>
vars == <<synthVars, censusVars>>

NoneRet == [kind |-> "None", str |-> <<>>, list |-> <<>>]
StrRet(s) == [kind |-> "str", str |-> s, list |-> <<>>]
ListRet(l) == [kind |-> "list", str |-> <<>>, list |-> l]

PatternChars == {"D", "L", "d", "l", "X", " "}
RECURSIVE SeqsUpTo(_, _)
SeqsUpTo(S, n) ==
  IF n = 0 THEN {<<>>}
  ELSE LET shorter == SeqsUpTo(S, n - 1)
       IN shorter \cup {Append(s, x) : s \in {t \in shorter : Len(t) = n - 1},
                                       x \in S}

\* ---------------------------------------------------------------- inputs
ShotInputs ==
  {[isInt |-> TRUE, n |-> k] : k \in -1 .. MaxShots}
    \cup {[isInt |-> FALSE, n |-> 1]}
LengthInputs == -2 .. 2 * MaxLen

NoPrev == [parallel |-> FALSE, ret |-> NoneRet, entropy |-> 0]

\* local state on entry of either function
Entry ==
  /\ results = <<>>
  /\ alphanumeric = <<>>
  /\ shot = 1
  /\ pos = 1
  /\ samples = <<>>
  /\ faulted = FALSE
  /\ callLog = <<>>
  /\ sliceLog = <<>>
  /\ outcome = "none"
  /\ err = "none"
  /\ ret = NoneRet
  /\ entropy = 0

CensusIdle ==
  /\ mclass = "D"
  /\ mstart = 0
  /\ mcount = 0
  /\ hist = [c \in {} |-> 0]

Init ==
  /\ \E sh \in ShotInputs : shots = sh.n /\ shotsIsInt = sh.isInt
  /\ \/ /\ api = "pattern"
        /\ pattern \in SeqsUpTo(PatternChars, MaxLen)
        /\ parallel \in BOOLEAN
        /\ length = 0
     \/ /\ api = "alternate"
        /\ length \in LengthInputs
        /\ pattern = <<>>
        /\ parallel = FALSE
  /\ seed \in Seeds
  /\ cursor = seed
  /\ pc = "validate"
  /\ round = 1
  /\ prev = NoPrev
  /\ Entry
  /\ CensusIdle

\* ------------------------------------------------------------ the provider
FaultChoices == IF faulted \/ round = 2 THEN {"none"} ELSE Faults

\* one call state.sample_counts(shots=1) on a circuit of `width` qubits
Draw(width, fault, s, j) ==
  /\ faulted' = (faulted \/ fault # "none")
  /\ callLog' = Append(callLog,
                       [shot |-> s, pos |-> j, width |-> width,
                        failed |-> (fault = "error"),
                        got |-> ReturnedWidth(width, fault)])
  /\ cursor' = IF fault = "error" THEN cursor
               ELSE (cursor + ReturnedWidth(width, fault)) % Len(Stream)

Sampled(width, fault) == DrawBits(cursor, ReturnedWidth(width, fault))

Raise(e) ==
  /\ pc' = "except"
  /\ err' = e

\* ------------------------- generate_quantum_alphanumeric_string: validation
ValidPattern(p) ==
  /\ Strip(p) # <<>>
  /\ \A i \in DOMAIN p : Upper(p[i]) \in {"D", "L"}
ValidShots == shotsIsInt /\ shots > 0

Validate ==
  /\ pc = "validate"
  /\ api = "pattern"
  /\ IF ~ValidPattern(pattern) \/ ~ValidShots
     THEN Raise("ValueError")
     ELSE /\ pc' = IF parallel /\ shots > 1 THEN "sample" ELSE "sequential"
          /\ err' = err
  /\ UNCHANGED <<api, pattern, length, shots, shotsIsInt, parallel, results,
                 alphanumeric, shot, pos, samples, seed, cursor, faulted,
                 callLog, sliceLog, outcome, ret, entropy, round, prev>>
  /\ UNCHANGED censusVars

\* --------------------------------- sequential branch, one inner iteration
SeqDraw ==
  /\ pc = "sequential"
  /\ \E fault \in FaultChoices :
       LET char_type == pattern[pos]
           num_qubits == NumQubits(char_type)
           bits == Sampled(num_qubits, fault)
           sym == Symbol(bits, IsDigit(char_type))
           str == Append(alphanumeric, sym)
       IN /\ Draw(num_qubits, fault, shot, pos)
          /\ IF fault = "error"
             THEN /\ Raise("RandomSourceError")
                  /\ UNCHANGED <<results, alphanumeric, shot, pos>>
             ELSE IF bits = <<>> \/ sym = "IndexError"
             THEN /\ Raise(IF bits = <<>> THEN "ValueError" ELSE "IndexError")
                  /\ UNCHANGED <<results, alphanumeric, shot, pos>>
             ELSE IF pos < Len(pattern)
             THEN /\ alphanumeric' = str
                  /\ pos' = pos + 1
                  /\ UNCHANGED <<results, shot, pc, err>>
             ELSE /\ results' = Append(results, str)
                  /\ pos' = 1
                  /\ IF shot < shots
                     THEN /\ shot' = shot + 1
                          /\ alphanumeric' = <<>>
                          /\ pc' = pc
                     ELSE /\ shot' = shot
                          /\ alphanumeric' = str
                          /\ pc' = "finish"
                  /\ err' = err
  /\ UNCHANGED <<api, pattern, length, shots, shotsIsInt, parallel, samples,
                 seed, sliceLog, outcome, ret, entropy, round, prev>>
  /\ UNCHANGED censusVars

\* ------------------------------------- parallel branch: samples, decoding
\* bit_index += qubits
NextBitIndexStuck(bit_index, qubits) == bit_index
NextBitIndex(bit_index, qubits) == bit_index + qubits

\* one element of samples = [state.sample_counts(shots=1) for state in states]
Sample ==
  /\ pc = "sample"
  /\ \E fault \in FaultChoices :
       LET total_qubits == TotalQubits(pattern)
       IN /\ Draw(total_qubits, fault, Len(samples) + 1, 0)
          /\ IF fault = "error"
             THEN /\ Raise("RandomSourceError")
                  /\ UNCHANGED samples
             ELSE /\ samples' = Append(samples, Sampled(total_qubits, fault))
                  /\ pc' = IF Len(samples) + 1 = shots THEN "decode" ELSE pc
                  /\ err' = err
  /\ UNCHANGED <<api, pattern, length, shots, shotsIsInt, parallel, results,
                 alphanumeric, shot, pos, seed, sliceLog, outcome, ret,
                 entropy, round, prev>>
  /\ UNCHANGED censusVars

\* the body of `for sample in samples`, from pattern position k on
RECURSIVE DecodeFrom(_, _, _, _, _, _)
DecodeFrom(sample, p, k, bit_index, acc, slices) ==
  IF k > Len(p)
  THEN [ok |-> TRUE, str |-> acc, slices |-> slices, bit_index |-> bit_index]
  ELSE LET qubits == NumQubits(p[k])
           bits == Slice(sample, bit_index, bit_index + qubits)
           taken == Append(slices, [lo |-> bit_index, len |-> Len(bits),
                                    width |-> qubits])
       IN IF Len(bits) # qubits
          THEN [ok |-> FALSE, str |-> acc, slices |-> taken,
                bit_index |-> bit_index]
          ELSE DecodeFrom(sample, p, k + 1, NextBitIndex(bit_index, qubits),
                          Append(acc, Symbol(bits, IsDigit(p[k]))), taken)

Decode ==
  /\ pc = "decode"
  /\ LET d == DecodeFrom(samples[shot], pattern, 1, 0, <<>>, <<>>)
     IN /\ sliceLog' = Append(sliceLog, d)
        /\ alphanumeric' = d.str
        /\ IF ~d.ok
           THEN /\ Raise("BitLengthMismatch")
                /\ UNCHANGED <<results, shot>>
           ELSE IF "IndexError" \in Range(d.str)
           THEN /\ Raise("IndexError")
                /\ UNCHANGED <<results, shot>>
           ELSE /\ results' = Append(results, d.str)
                /\ IF shot < Len(samples)
                   THEN shot' = shot + 1 /\ pc' = pc
                   ELSE shot' = shot /\ pc' = "finish"
                /\ err' = err
  /\ UNCHANGED <<api, pattern, length, shots, shotsIsInt, parallel, pos,
                 samples, seed, cursor, faulted, callLog, outcome, ret,
                 entropy, round, prev>>
  /\ UNCHANGED censusVars

\* ------------------------------------------------------ return and except
\* results[0] if shots == 1 else results
ReturnValueFirst(res, n) == IF res # <<>> THEN StrRet(res[1]) ELSE ListRet(res)
ReturnValue(res, n) == IF n = 1 THEN StrRet(res[1]) ELSE ListRet(res)

\* return None, 0.0
ExceptReturnPartial(res) == ListRet(res)
ExceptReturn(res) == NoneRet

Finish ==
  /\ pc = "finish"
  /\ entropy' = calculate_entropy(results)
  /\ ret' = ReturnValue(results, shots)
  /\ outcome' = "ok"
  /\ pc' = "done"
  /\ UNCHANGED <<api, pattern, length, shots, shotsIsInt, parallel, results,
                 alphanumeric, shot, pos, samples, seed, cursor, faulted,
                 callLog, sliceLog, err, round, prev>>
  /\ UNCHANGED censusVars

Except ==
  /\ pc = "except"
  /\ api = "pattern"
  /\ ret' = ExceptReturn(results)
  /\ entropy' = 0
  /\ outcome' = "error"
  /\ pc' = "done"
  /\ UNCHANGED <<api, pattern, length, shots, shotsIsInt, parallel, results,
                 alphanumeric, shot, pos, samples, seed, cursor, faulted,
                 callLog, sliceLog, err, round, prev>>
  /\ UNCHANGED censusVars

\* ------------------------------------------- generate_quantum_alphanumeric
AltValidate ==
  /\ pc = "validate"
  /\ api = "alternate"
  /\ IF length <= 0 \/ length % 2 # 0
     THEN Raise("ValueError")
     ELSE IF ~shotsIsInt
     THEN Raise("TypeError")
     ELSE /\ pc' = IF shots <= 0 THEN "alt_return" ELSE "alt_loop"
          /\ err' = err
  /\ UNCHANGED <<api, pattern, length, shots, shotsIsInt, parallel, results,
                 alphanumeric, shot, pos, samples, seed, cursor, faulted,
                 callLog, sliceLog, outcome, ret, entropy, round, prev>>
  /\ UNCHANGED censusVars

AltDraw ==
  /\ pc = "alt_loop"
  /\ \E fault \in FaultChoices :
       LET i == pos - 1
           is_digit == (i % 2 = 0)
           n_qubits == IF is_digit THEN digit_qubits ELSE letter_qubits
           sample == Sampled(n_qubits, fault)
           sym == Symbol(sample, is_digit)
           str == Append(alphanumeric, sym)
       IN /\ Draw(n_qubits, fault, shot, pos)
          /\ IF fault = "error"
             THEN /\ Raise("RandomSourceError")
                  /\ UNCHANGED <<results, alphanumeric, shot, pos>>
             ELSE IF sample = <<>> \/ sym = "IndexError"
             THEN /\ Raise(IF sample = <<>> THEN "ValueError" ELSE "IndexError")
                  /\ UNCHANGED <<results, alphanumeric, shot, pos>>
             ELSE IF pos < length
             THEN /\ alphanumeric' = str
                  /\ pos' = pos + 1
                  /\ UNCHANGED <<results, shot, pc, err>>
             ELSE /\ results' = Append(results, str)
                  /\ pos' = 1
                  /\ IF shot < shots
                     THEN /\ shot' = shot + 1
                          /\ alphanumeric' = <<>>
                          /\ pc' = pc
                     ELSE /\ shot' = shot
                          /\ alphanumeric' = str
                          /\ pc' = "alt_return"
                  /\ err' = err
  /\ UNCHANGED <<api, pattern, length, shots, shotsIsInt, parallel, samples,
                 seed, sliceLog, outcome, ret, entropy, round, prev>>
  /\ UNCHANGED censusVars

AltReturn ==
  /\ pc = "alt_return"
  /\ ret' = ReturnValue(results, shots)
  /\ outcome' = "ok"
  /\ pc' = "done"
  /\ UNCHANGED <<api, pattern, length, shots, shotsIsInt, parallel, results,
                 alphanumeric, shot, pos, samples, seed, cursor, faulted,
                 callLog, sliceLog, err, entropy, round, prev>>
  /\ UNCHANGED censusVars

AltExcept ==
  /\ pc = "except"
  /\ api = "alternate"
  /\ ret' = ExceptReturn(results)
  /\ outcome' = "error"
  /\ pc' = "done"
  /\ UNCHANGED <<api, pattern, length, shots, shotsIsInt, parallel, results,
                 alphanumeric, shot, pos, samples, seed, cursor, faulted,
                 callLog, sliceLog, err, entropy, round, prev>>
  /\ UNCHANGED censusVars

\* ---------- the same call again in the other mode, on the same bit stream
Reinvoke ==
  /\ pc = "done"
  /\ api = "pattern"
  /\ round = 1
  /\ outcome = "ok"
  /\ ~faulted
  /\ prev' = [parallel |-> parallel, ret |-> ret, entropy |-> entropy]
  /\ parallel' = ~parallel
  /\ round' = 2
  /\ cursor' = seed
  /\ pc' = "validate"
  /\ results' = <<>>
  /\ alphanumeric' = <<>>
  /\ shot' = 1
  /\ pos' = 1
  /\ samples' = <<>>
  /\ faulted' = FALSE
  /\ callLog' = <<>>
  /\ sliceLog' = <<>>
  /\ outcome' = "none"
  /\ err' = "none"
  /\ ret' = NoneRet
  /\ entropy' = 0
  /\ UNCHANGED <<api, pattern, length, shots, shotsIsInt, seed>>
  /\ UNCHANGED censusVars

Next ==
  \/ Validate
  \/ SeqDraw
  \/ Sample
  \/ Decode
  \/ Finish
  \/ Except
  \/ AltValidate
  \/ AltDraw
  \/ AltReturn
  \/ AltExcept
  \/ Reinvoke

Spec == Init /\ [][Next]_vars

\* ------------------------------------- calculate_entropy on its own inputs
EntropyChars == {"a", "b", "c"}
Batches == SeqsUpTo(SeqsUpTo(EntropyChars, MaxStrLen), MaxBatch)

SynthIdle ==
  /\ api = "pattern"
  /\ pattern = <<>>
  /\ length = 0
  /\ shots = 1
  /\ shotsIsInt = TRUE
  /\ parallel = FALSE
  /\ seed = 0
  /\ cursor = 0
  /\ round = 1
  /\ prev = NoPrev

InitEntropy ==
  /\ SynthIdle
  /\ alphanumeric = <<>>
  /\ shot = 1
  /\ pos = 1
  /\ samples = <<>>
  /\ faulted = FALSE
  /\ callLog = <<>>
  /\ sliceLog = <<>>
  /\ outcome = "none"
  /\ err = "none"
  /\ ret = NoneRet
  /\ entropy = 0
  /\ results \in Batches
  /\ pc = "estimate"
  /\ CensusIdle

Estimate ==
  /\ pc = "estimate"
  /\ entropy' = calculate_entropy(results)
  /\ pc' = "estimated"
  /\ UNCHANGED <<api, pattern, length, shots, shotsIsInt, parallel, results,
                 alphanumeric, shot, pos, samples, seed, cursor, faulted,
                 callLog, sliceLog, outcome, err, ret, round, prev>>
  /\ UNCHANGED censusVars

NextEntropy == Estimate

SpecEntropy == InitEntropy /\ [][NextEntropy]_vars

\* ------------------ the bit-to-symbol mapping fed every value of its width
Markers == {"D", "L", "d", "l"}

\* the `width`-character binary numeral of v
RECURSIVE BitsOf(_, _)
BitsOf(v, width) ==
  IF width = 0 THEN <<>>
  ELSE Append(BitsOf(v \div 2, width - 1), IF v % 2 = 1 THEN "1" ELSE "0")

InitCensus ==
  /\ SynthIdle
  /\ Entry
  /\ pc = "census"
  /\ mclass \in Markers
  /\ mstart \in 0 .. (2 ^ NumQubits(mclass) - 1)
  /\ mcount = 0
  /\ hist = [c \in Range(digits) \cup Range(letters) |-> 0]

CensusStep ==
  /\ pc = "census"
  /\ mcount < 2 ^ NumQubits(mclass)
  /\ LET width == NumQubits(mclass)
         bits == BitsOf((mstart + mcount) % (2 ^ width), width)
         sym == Symbol(bits, IsDigit(mclass))
     IN hist' = [c \in DOMAIN hist |-> IF c = sym THEN hist[c] + 1 ELSE hist[c]]
  /\ mcount' = mcount + 1
  /\ UNCHANGED <<mclass, mstart>>
  /\ UNCHANGED synthVars

NextCensus == CensusStep

SpecCensus == InitCensus /\ [][NextCensus]_vars

\* ================================================================ claims
\* The class tables as the specification states them.
DigitMarkers == {"D", "d"}
LetterMarkers == {"L", "l"}
DigitChars == {"0", "1", "2", "3", "4", "5", "6", "7", "8", "9"}
LetterChars == {"a", "b", "c", "d", "e", "f", "g", "h", "i", "j", "k", "l",
                "m", "n", "o", "p", "q", "r", "s", "t", "u", "v", "w", "x",
                "y", "z"}
ClassWidth(c) == IF c \in DigitMarkers THEN 4 ELSE 5
RECURSIVE SumWidths(_)
SumWidths(p) == IF p = <<>> THEN 0 ELSE ClassWidth(Head(p)) + SumWidths(Tail(p))

InputValid ==
  /\ shotsIsInt
  /\ shots >= 1
  /\ IF api = "pattern"
     THEN /\ pattern # <<>>
          /\ \A i \in DOMAIN pattern : pattern[i] \in DigitMarkers \cup LetterMarkers
     ELSE length > 0 /\ length % 2 = 0

\* the marker that governs position i (1-based) of a generated string
MarkerAt(i) ==
  IF api = "pattern" THEN pattern[i] ELSE IF i % 2 = 1 THEN "D" ELSE "L"
ExpectedLen == IF api = "pattern" THEN Len(pattern) ELSE length
RetStrings ==
  CASE ret.kind = "list" -> ret.list
    [] ret.kind = "str" -> <<ret.str>>
    [] OTHER -> <<>>
Done == pc = "done"

CharInClass(i, ch) ==
  IF MarkerAt(i) \in DigitMarkers THEN ch \in DigitChars ELSE ch \in LetterChars
StringInClass(str) == \A i \in DOMAIN str : CharInClass(i, str[i])
C2_ClassMembership ==
  /\ \A k \in DOMAIN results : StringInClass(results[k])
  /\ StringInClass(alphanumeric)
  /\ \A k \in DOMAIN RetStrings : StringInClass(RetStrings[k])

C2_Witness ==
  /\ Done /\ outcome = "ok" /\ api = "pattern" /\ shots = 2
  /\ pattern = <<"d", "L">>
  /\ ret.list[1][1] \in DigitChars /\ ret.list[1][2] \in LetterChars
  /\ ret.list[1] # ret.list[2]

\* C3 (as stated): invalid input always ends in a failure outcome with no
\* provider call and no batch returned, not even an empty one.
C3_Claim ==
  (Done /\ ~InputValid) =>
    /\ outcome = "error"
    /\ callLog = <<>>
    /\ ret.kind = "None"

\* C4 (as stated): whenever a bit sample of a pattern position has a length
\* other than the position's class width, generation fails with the
\* bit-length-mismatch error.
WrongWidthSample ==
  \/ \E k \in DOMAIN callLog :
       /\ callLog[k].pos >= 1
       /\ ~callLog[k].failed
       /\ callLog[k].got # ClassWidth(MarkerAt(callLog[k].pos))
  \/ \E k \in DOMAIN sliceLog : \E i \in DOMAIN sliceLog[k].slices :
       sliceLog[k].slices[i].len # ClassWidth(MarkerAt(i))
C4_Claim ==
  (Done /\ api = "pattern" /\ WrongWidthSample) =>
    outcome = "error" /\ err = "BitLengthMismatch"

\* C5: the same valid call made in sequential mode and in batch mode on the
\* same bit stream returns the same strings in the same order (and the same
\* entropy).
C5_ModesAgree ==
  (Done /\ round = 2) =>
    /\ parallel # prev.parallel
    /\ outcome = "ok"
    /\ ret = prev.ret
    /\ entropy = prev.entropy

C5_Witness ==
  /\ Done /\ round = 2 /\ parallel /\ shots = 2 /\ Len(pattern) = 2
  /\ Len(callLog) = 2
  /\ ret = prev.ret
  /\ ret.list[1] # ret.list[2]

\* C6: once an exception was raised (provider failure, mapping error or
\* bit-length mismatch), also after some strings were completed, the call
\* ends in failure, returns None instead of any strings, and the entropy
\* returned with it is 0.
C6_AbortWholeBatch ==
  (Done /\ (err # "none" \/ \E k \in DOMAIN callLog : callLog[k].failed)) =>
    /\ outcome = "error"
    /\ ret = NoneRet
    /\ entropy = 0

C6_Witness ==
  /\ Done /\ outcome = "error" /\ api = "pattern"
  /\ Len(results) >= 1
  /\ ret = NoneRet /\ entropy = 0

\* C7: fed each value of its width exactly once, the digit mapping yields
\* each of the indices 0-5 twice and each of 6-9 once, and the letter mapping
\* yields each of the indices 0-5 twice and each of 6-25 once.
CensusComplete == pc = "census" /\ mcount = 2 ^ ClassWidth(mclass)
C7_ModuloBias ==
  CensusComplete =>
    LET alphabet == IF mclass \in DigitMarkers THEN digits ELSE letters
    IN /\ \A i \in 0 .. (Len(alphabet) - 1) :
            hist[alphabet[i + 1]] = IF i <= 5 THEN 2 ELSE 1
       /\ \A c \in DOMAIN hist : c \notin Range(alphabet) => hist[c] = 0

C7_Witness ==
  /\ CensusComplete /\ mclass = "D" /\ mstart = 7
  /\ hist["5"] = 2 /\ hist["6"] = 1

\* C8: the estimate is 0 for the empty batch, for a batch without characters
\* and for a batch with one distinct character, it is 1.0 for a batch with
\* exactly two distinct characters of equal count, and it is never negative.
BatchChars == UNION {Range(results[k]) : k \in DOMAIN results}
Occurrences(c) ==
  Cardinality({ki \in (DOMAIN results) \X (1 .. MaxStrLen) :
                 /\ ki[2] \in DOMAIN results[ki[1]]
                 /\ results[ki[1]][ki[2]] = c})
C8_EntropyValues ==
  pc = "estimated" =>
    /\ entropy >= 0
    /\ Cardinality(BatchChars) <= 1 => entropy = 0
    /\ (/\ Cardinality(BatchChars) = 2
        /\ \A c, d \in BatchChars : Occurrences(c) = Occurrences(d))
         => entropy = EntropyOne

C8_Witness ==
  /\ pc = "estimated"
  /\ results = << <<"a", "b">> >>
  /\ entropy = EntropyOne

\* C9 (as stated): in batch mode every string of the batch costs exactly one
\* combined draw of the summed class widths, for every shot count.
C9_Original ==
  (Done /\ api = "pattern" /\ parallel /\ InputValid /\ ~faulted) =>
    /\ Len(callLog) = shots
    /\ \A k \in DOMAIN callLog : callLog[k].width = SumWidths(pattern)

\* C9 (amended): in batch mode with two or more shots, every draw is a
\* combined draw of W = the summed class widths, one per string; the slices
\* taken off a sample start at 0, are contiguous, one per pattern position and
\* of that position's class width, a fully sliced sample ends at offset W,
\* and a sample of exactly W bits never raises the mismatch error.  With one
\* shot, batch mode takes the sequential path: one draw per position, of the
\* position's class width.
SlicesInOrder(d) ==
  /\ Len(d.slices) <= Len(pattern)
  /\ \A i \in DOMAIN d.slices :
       /\ d.slices[i].width = ClassWidth(pattern[i])
       /\ d.slices[i].lo = SumWidths(SubSeq(pattern, 1, i - 1))
       /\ i < Len(d.slices) => d.slices[i].len = d.slices[i].width
  /\ d.ok => /\ Len(d.slices) = Len(pattern)
             /\ \A i \in DOMAIN d.slices : d.slices[i].len = d.slices[i].width
             /\ d.bit_index = SumWidths(pattern)
C9_CombinedDraw ==
  (api = "pattern" /\ parallel /\ InputValid) =>
    /\ shots >= 2 =>
         /\ Len(callLog) <= shots
         /\ \A k \in DOMAIN callLog :
              /\ callLog[k].width = SumWidths(pattern)
              /\ callLog[k].shot = k
         /\ (Done /\ outcome = "ok") => Len(callLog) = shots /\ Len(sliceLog) = shots
         /\ \A k \in DOMAIN sliceLog :
              /\ SlicesInOrder(sliceLog[k])
              /\ Len(samples[k]) = SumWidths(pattern) => sliceLog[k].ok
         /\ ~faulted => err # "BitLengthMismatch"
    /\ (shots = 1 /\ Done /\ outcome = "ok") =>
         /\ sliceLog = <<>>
         /\ Len(callLog) = Len(pattern)
         /\ \A k \in DOMAIN callLog :
              callLog[k].width = ClassWidth(pattern[k])

C9_Witness ==
  /\ Done /\ outcome = "ok" /\ api = "pattern" /\ parallel /\ ~faulted
  /\ shots = 2 /\ pattern = <<"D", "l">>
  /\ Len(callLog) = 2 /\ callLog[2].width = 9
  /\ Len(sliceLog) = 2 /\ sliceLog[2].slices[2].lo = 4
  /\ sliceLog[2].bit_index = 9

\* C10: in sequential mode the k-th provider call is the call for position
\* ((k-1) mod len)+1 of string ((k-1) div len)+1 and requests that position's
\* class width; a successful call on valid input has made exactly
\* shots * len calls.
SequentialMode == api = "alternate" \/ (api = "pattern" /\ ~parallel)
C10_CallOrder ==
  (SequentialMode /\ InputValid) =>
    /\ \A k \in DOMAIN callLog :
         /\ callLog[k].shot = ((k - 1) \div ExpectedLen) + 1
         /\ callLog[k].pos = ((k - 1) % ExpectedLen) + 1
         /\ callLog[k].width = ClassWidth(MarkerAt(callLog[k].pos))
    /\ Len(callLog) <= shots * ExpectedLen
    /\ (Done /\ outcome = "ok") => Len(callLog) = shots * ExpectedLen

C10_Witness ==
  /\ Done /\ outcome = "ok" /\ api = "pattern" /\ ~parallel
  /\ shots = 2 /\ pattern = <<"l", "D">>
  /\ Len(callLog) = 4
  /\ callLog[3].shot = 2 /\ callLog[3].pos = 1 /\ callLog[3].width = 5

====
